---- MODULE Spec2Model ----
(***************************************************************************)
(* torchsh/symbolic/codegen.py: derivation of the real spherical harmonics *)
(* in Cartesian form and synthesis of the rsh_cart_<degree> routines.      *)
(*                                                                         *)
(* Texts are sequences of string tokens: a template contributes its fixed  *)
(* pieces, str.format fills the holes, str.join puts the separator token   *)
(* between the parts.  Symbolic expressions are polynomials: sequences of  *)
(* terms, a term being a coefficient and one exponent per symbol.          *)
(* Floating-point coefficients are represented by integers.                *)
(***************************************************************************)
EXTENDS Integers, Sequences, FiniteSets, TLC

VARIABLES
    _subs,      \* module global: the substitution table (a dict, in insertion order)
    instr,      \* the instruction table the caller holds, with the arguments that made it
    ret,        \* the last library call: operation, arguments, returned value
    runs,       \* the standalone generator's runs so far: flags and what was emitted
    probe       \* an expression f, g = _substitute(f), a point xyz and its bindings env

vars == <<_subs, instr, ret, runs, probe>>

\* ------------------------------------------------------------------ bounds

\* Library callers use degrees 0..MaxDegree.
MaxDegree == 3

\* Points have integer coordinates in -MaxCoord..MaxCoord.
MaxCoord == 2

\* generate_ynm_file is called with at most MaxDegrees degrees.
MaxDegrees == 2

\* ------------------------------------------------------------- arithmetic

\* n * (n - 1) * ... * (n - m + 1), that is n! / (n - m)!
RECURSIVE Falling(_, _)
Falling(n, m) == IF m = 0 THEN 1 ELSE n * Falling(n - 1, m - 1)

RECURSIVE Binom(_, _)
Binom(n, k) == IF k = 0 THEN 1 ELSE (Binom(n, k - 1) * (n - k + 1)) \div k

RECURSIVE IntPow(_, _)
IntPow(b, e) == IF e = 0 THEN 1 ELSE b * IntPow(b, e - 1)

Abs(i) == IF i < 0 THEN -i ELSE i

Min(a, b) == IF a <= b THEN a ELSE b

Max(a, b) == IF a >= b THEN a ELSE b

\* range(a, b) of Python, as a sequence.
Range(a, b) == [i \in 1..Max(b - a, 0) |-> a + i - 1]

\* ------------------------------------------------------------ expressions

\* x, y, z = sym.symbols("x:z"), then the six symbols _subs introduces.
Symbols == <<"x", "y", "z", "x2", "y2", "z2", "xy", "xz", "yz">>

NoExp == [i \in 1..9 |-> 0]

SymIndex(name) == CHOOSE i \in 1..9 : Symbols[i] = name

\* c * x**ex * y**ey * z**ez
Mono(c, ex, ey, ez) == [c |-> c, e |-> [NoExp EXCEPT ![1] = ex, ![2] = ey, ![3] = ez]]

\* The product of two polynomials, term by term, p's terms outermost.
PolyMul(p, q) ==
    [i \in 1..(Len(p) * Len(q)) |->
        LET a == p[((i - 1) \div Len(q)) + 1]
            b == q[((i - 1) % Len(q)) + 1]
        IN  [c |-> a.c * b.c, e |-> [s \in 1..9 |-> a.e[s] + b.e[s]]]]

NonZero(p) == SelectSeq(p, LAMBDA t : t.c # 0)

\* Re (x + i y)**m and Im (x + i y)**m.
CosHalfPi(k) == IF k % 2 = 1 THEN 0 ELSE IF k % 4 = 0 THEN 1 ELSE -1

SinHalfPi(k) == IF k % 2 = 0 THEN 0 ELSE IF k % 4 = 1 THEN 1 ELSE -1

A(m) == NonZero([i \in 1..(m + 1) |-> Mono(Binom(m, i - 1) * CosHalfPi(m - (i - 1)), i - 1, m - (i - 1), 0)])

B(m) == NonZero([i \in 1..(m + 1) |-> Mono(Binom(m, i - 1) * SinHalfPi(m - (i - 1)), i - 1, m - (i - 1), 0)])

\* The z-polynomial of degree l - m, on the unit sphere (r = 1), up to its
\* positive normalisation factor.
Pi(l, m) ==
    [i \in 1..(((l - m) \div 2) + 1) |->
        LET k == i - 1
        IN  Mono((IF k % 2 = 0 THEN 1 ELSE -1) * Binom(l, k) * Binom(2 * l - 2 * k, l)
                     * Falling(l - 2 * k, m),
                 0, 0, l - 2 * k - m)]

\* Ylm(n, m, x, y, z): the real spherical harmonic of degree n and order m
\* as a polynomial in x, y, z.
Ylm(n, m) ==
    IF m > 0 THEN PolyMul(Pi(n, m), A(m))
    ELSE IF m < 0 THEN PolyMul(Pi(n, -m), B(-m))
    ELSE Pi(n, 0)

\* ----------------------------------------------------------- substitution

\* The dict literal _subs: monomial in x, y, z -> fresh symbol.
SubsTable ==
    << [old |-> <<2, 0, 0>>, new |-> "x2"],
       [old |-> <<0, 2, 0>>, new |-> "y2"],
       [old |-> <<0, 0, 2>>, new |-> "z2"],
       [old |-> <<1, 1, 0>>, new |-> "xy"],
       [old |-> <<1, 0, 1>>, new |-> "xz"],
       [old |-> <<0, 1, 1>>, new |-> "yz"] >>

Bases(old) == {b \in 1..3 : old[b] > 0}

\* Expr.subs(dict) applies the pairs one after the other, the products
\* (Mul) before the powers (Pow), each class in its canonical order.
SubsSequence(table) ==
    SelectSeq(table, LAMBDA p : Cardinality(Bases(p.old)) > 1)
        \o SelectSeq(table, LAMBDA p : Cardinality(Bases(p.old)) <= 1)

\* Pow substitution b**k -> new: b**t becomes new**(t/k) when k divides t,
\* and stays as it is otherwise (b is real, not known to be positive).
SubsPow(t, old, new) ==
    LET b == CHOOSE s \in Bases(old) : TRUE
        k == old[b]
    IN  IF t.e[b] > 0 /\ t.e[b] % k = 0
        THEN [t EXCEPT !.e[b] = 0, !.e[SymIndex(new)] = @ + (t.e[b] \div k)]
        ELSE t

\* Mul substitution: the product is taken out as often as every one of its
\* factors allows, and the rest of the term is kept.
SubsMul(t, old, new) ==
    LET rat(b) == IF t.e[b] % old[b] = 0 THEN t.e[b] \div old[b] ELSE 0
        do == CHOOSE d \in {rat(b) : b \in Bases(old)} :
                  \A b \in Bases(old) : d <= rat(b)
    IN  IF do = 0 THEN t
        ELSE [c |-> t.c,
              e |-> [s \in 1..9 |->
                        IF s \in Bases(old) THEN t.e[s] - do * old[s]
                        ELSE IF s = SymIndex(new) THEN t.e[s] + do
                        ELSE t.e[s]]]

SubsOne(t, pair) ==
    IF Cardinality(Bases(pair.old)) > 1
    THEN SubsMul(t, pair.old, pair.new)
    ELSE SubsPow(t, pair.old, pair.new)

RECURSIVE SubsTerm(_, _)
SubsTerm(t, pairs) ==
    IF pairs = <<>> THEN t ELSE SubsTerm(SubsOne(t, Head(pairs)), Tail(pairs))

\* _substitute(f) == f.subs(_subs)
_substitute(f) == [i \in 1..Len(f) |-> SubsTerm(f[i], SubsSequence(_subs))]

\* ------------------------------------------------------------- evaluation

\* Faulty variant of Bindings: x*2 for x**2, and so on.
Bindings_double(xyz) ==
    LET x == xyz[1]
        y == xyz[2]
        z == xyz[3]
    IN  <<x, y, z, x * 2, y * 2, z * 2, x * y, x * z, y * z>>

\* The first lines of the generated routine: x, y, z from the last axis of
\* xyz, then the six precomputed products, in the order of Symbols.
Bindings(xyz) ==
    LET x == xyz[1]
        y == xyz[2]
        z == xyz[3]
    IN  <<x, y, z, x * x, y * y, z * z, x * y, x * z, y * z>>

RECURSIVE Prod(_, _, _)
Prod(t, env, s) == IF s = 0 THEN t.c ELSE IntPow(env[s], t.e[s]) * Prod(t, env, s - 1)

RECURSIVE Eval(_, _)
Eval(f, env) == IF f = <<>> THEN 0 ELSE Prod(Head(f), env, 9) + Eval(Tail(f), env)

\* ------------------------------------------------------------------ texts

\* sep.join(parts): the parts in order, the separator between neighbours.
RECURSIVE JoinFrom(_, _, _)
JoinFrom(sep, parts, i) ==
    IF i > Len(parts) THEN <<>>
    ELSE IF i = Len(parts) THEN parts[i]
    ELSE parts[i] \o <<sep>> \o JoinFrom(sep, parts, i + 1)

Join(sep, parts) == JoinFrom(sep, parts, 1)

\* [item for sublist in lists for item in sublist]
RECURSIVE Flatten(_)
Flatten(lists) == IF lists = <<>> THEN <<>> ELSE Head(lists) \o Flatten(Tail(lists))

\* Faulty variants of SliceTo: seq[:stop + 1], and nothing for a stop past
\* the end.
SliceTo_incl(seq, stop) == SubSeq(seq, 1, Min(stop + 1, Len(seq)))

SliceTo_strict(seq, stop) == IF stop > Len(seq) THEN <<>> ELSE SubSeq(seq, 1, Max(stop, 0))

\* seq[:stop] of Python, a negative stop counting from the end.
SliceTo(seq, stop) ==
    SubSeq(seq, 1, IF stop < 0 THEN Max(Len(seq) + stop, 0) ELSE Min(stop, Len(seq)))

\* One factor of a printed term: *sym or *sym**e.
FactorTokens(t, s) ==
    IF t.e[s] = 0 THEN <<>>
    ELSE IF t.e[s] = 1 THEN <<"*", Symbols[s]>>
    ELSE <<"*", Symbols[s], "**", ToString(t.e[s])>>

TermTokens(t) == <<ToString(t.c)>> \o Flatten([s \in 1..9 |-> FactorTokens(t, s)])

\* sym.pycode(f): the terms of f, printed and added up.
Pycode(f) == Join("+", [i \in 1..Len(f) |-> TermTokens(f[i])])

header_tpl ==
    <<"\n'''Real spherical harmonics in Cartesian form for PyTorch.\n\nThis is an autogenerated file. See\nhttps://github.com/cheind/torch-spherical-harmonics\nfor more information.\n'''\n">>

import_tpl == <<"\nimport torch\n">>

DefOpen == "\ndef rsh_cart_"

DocOpen == "(xyz:torch.Tensor):\n    '''Computes all real spherical harmonics up to "

StackOpen == " degree.\n\n    This is an autogenerated method. See\n    https://github.com/cheind/torch-spherical-harmonics\n    for more information.\n\n    Params:\n        xyz: (N,...,3) tensor of points on the unit sphere\n    \n    Returns:\n        rsh: (N,...,K) real spherical harmonics projections of input.\n    '''\n\n    x = xyz[...,0]\n    y = xyz[...,1]\n    z = xyz[...,2]\n\n    x2=x**2\n    y2=y**2\n    z2=z**2\n    xy=x*y\n    xz=x*z\n    yz=y*z\n\n    return torch.stack(\n        ["

StackClose == "]\n        ,-1\n    )    \n"

\* method_tpl.format(degree=degree, ynms=ynms)
method_tpl(degree, ynms) ==
    <<DefOpen, ToString(degree), DocOpen, ToString(degree), StackOpen>> \o ynms \o <<StackClose>>

WrapOpen == "xyz.new_tensor("

WrapClose == ").expand(xyz.shape[:-1])"

\* Faulty variant of YlmStr: the order decides the wrapping.
YlmStr_m0(n, m) ==
    LET ylmstr == Pycode(_substitute(Ylm(n, m)))
    IN  IF m = 0 THEN <<WrapOpen>> \o ylmstr \o <<WrapClose>> ELSE ylmstr

\* The body of the inner loop of generate_ynm_instructions: the
\* instruction of the pair (n, m).
YlmStr(n, m) ==
    LET ylmstr == Pycode(_substitute(Ylm(n, m)))
    IN  IF n = 0 THEN <<WrapOpen>> \o ylmstr \o <<WrapClose>> ELSE ylmstr

\* Faulty variants of Level: range(-n, n), and the orders descending.
Level_short(n) == LET ms == Range(-n, n) IN [j \in 1..Len(ms) |-> YlmStr(n, ms[j])]

Level_desc(n) == LET ms == Range(-n, n + 1) IN [j \in 1..Len(ms) |-> YlmStr(n, -ms[j])]

\* for m in range(-n, n + 1): level.append(...)
Level(n) == LET ms == Range(-n, n + 1) IN [j \in 1..Len(ms) |-> YlmStr(n, ms[j])]

generate_ynm_instructions(max_degree, start_degree) ==
    LET ns == Range(start_degree, max_degree) IN [i \in 1..Len(ns) |-> Level(ns[i])]

generate_ynm_method(ynm_instr, degree) ==
    LET ynms == Flatten(SliceTo(ynm_instr, degree))
    IN  method_tpl(degree, Join(",", ynms))

\* Faulty variant of generate_ynm_file: the routines in reversed order.
generate_ynm_file_reversed(ynm_instr, degrees) ==
    Join("\n", <<header_tpl, import_tpl>>
                   \o [i \in 1..Len(degrees) |->
                          generate_ynm_method(ynm_instr, degrees[Len(degrees) + 1 - i])])

generate_ynm_file(ynm_instr, degrees) ==
    LET content_parts ==
            <<header_tpl, import_tpl>>
                \o [i \in 1..Len(degrees) |-> generate_ynm_method(ynm_instr, degrees[i])]
    IN  Join("\n", content_parts)

\* ------------------------------------------------- reading a document back

\* The members of a finite set of integers, ascending.
SortedSeq(S) ==
    [k \in 1..Cardinality(S) |-> CHOOSE i \in S : Cardinality({j \in S : j < i}) = k - 1]

\* The pieces of toks between the occurrences of sep; no piece for no tokens.
Split(toks, sep) ==
    IF toks = <<>> THEN <<>>
    ELSE LET cuts == SortedSeq({i \in 1..Len(toks) : toks[i] = sep})
             n == Len(cuts) + 1
         IN  [k \in 1..n |->
                 SubSeq(toks,
                        IF k = 1 THEN 1 ELSE cuts[k - 1] + 1,
                        IF k = n THEN Len(toks) ELSE cuts[k] - 1)]

\* Where the function definitions of a document start.
DefsAt(doc) == SortedSeq({i \in 1..Len(doc) : doc[i] = DefOpen})

\* The function definition starting at token i: its name and the elements
\* of the list it passes to torch.stack, split at sep.
DefAt(doc, i, sep) ==
    LET close == CHOOSE j \in (i + 1)..Len(doc) :
                     /\ doc[j] = StackClose
                     /\ \A k \in (i + 1)..(j - 1) : doc[k] # StackClose
    IN  [name |-> "rsh_cart_" \o doc[i + 1], out |-> Split(SubSeq(doc, i + 5, close - 1), sep)]

\* The definitions of a document, in order.
Defs(doc, sep) == LET at == DefsAt(doc) IN [k \in 1..Len(at) |-> DefAt(doc, at[k], sep)]

NoFn == [name |-> "KeyError", out |-> <<>>]

\* ctx = {}; exec(source, ctx): a later definition of a name replaces an
\* earlier one.  ctx[name] is the last definition of that name.
Exec(source) == Defs(source, ",")

CtxGet(ctx, name) ==
    LET hits == {k \in 1..Len(ctx) : ctx[k].name = name}
    IN  IF hits = {} THEN NoFn ELSE ctx[CHOOSE k \in hits : \A j \in hits : j <= k]

\* The shape of what a routine returns on a batch of the given shape: every
\* stacked element has the batch's leading shape, torch.stack(..., -1) adds
\* one trailing axis with an entry per element.
RshShape(fn, shape) == SubSeq(shape, 1, Len(shape) - 1) \o <<Len(fn.out)>>

\* Faulty variant of compile_file: the routine of the last derived band is emitted.
compile_file_next(degree) ==
    LET instr_ == generate_ynm_instructions(degree + 1, 0)
        source == generate_ynm_file(instr_, <<degree + 1>>)
        ctx == Exec(source)
    IN  [table |-> instr_, source |-> source,
         fn |-> CtxGet(ctx, "rsh_cart_" \o ToString(degree))]

compile_file(degree) ==
    LET instr_ == generate_ynm_instructions(degree + 1, 0)
        source == generate_ynm_file(instr_, <<degree>>)
        ctx == Exec(source)
    IN  [table |-> instr_, source |-> source,
         fn |-> CtxGet(ctx, "rsh_cart_" \o ToString(degree))]

\* ------------------------------------------------------- library session

NoTable == [have |-> FALSE, start |-> 0, max |-> 0, ynms |-> <<>>]

Imported == [op |-> "import", arg |-> <<>>, table |-> <<>>, text |-> <<>>, fn |-> NoFn, again |-> FALSE]

NoProbe == [hasf |-> FALSE, f |-> <<>>, g |-> <<>>, haspt |-> FALSE, xyz |-> <<0, 0, 0>>, env |-> <<>>]

Init ==
    /\ _subs = SubsTable
    /\ instr = NoTable
    /\ ret = Imported
    /\ runs = <<>>
    /\ probe = NoProbe

Degrees == 0..MaxDegree

\* Faulty variant of GenerateYnmInstructions: the call uses up an entry of _subs.
GenerateYnmInstructions_pop ==
    \E start \in Degrees, max \in Degrees :
        LET ynms == generate_ynm_instructions(max, start)
        IN  /\ instr' = [have |-> TRUE, start |-> start, max |-> max, ynms |-> ynms]
            /\ ret' = [op |-> "generate_ynm_instructions", arg |-> <<max, start>>,
                       table |-> ynms, text |-> <<>>, fn |-> NoFn,
                       again |-> instr.have /\ instr.start = start /\ instr.max = max]
            /\ _subs' = SubSeq(_subs, 1, Len(_subs) - 1)
            /\ UNCHANGED <<runs, probe>>

\* instr = generate_ynm_instructions(max_degree=max, start_degree=start)
GenerateYnmInstructions ==
    \E start \in Degrees, max \in Degrees :
        LET ynms == generate_ynm_instructions(max, start)
        IN  /\ instr' = [have |-> TRUE, start |-> start, max |-> max, ynms |-> ynms]
            /\ ret' = [op |-> "generate_ynm_instructions", arg |-> <<max, start>>,
                       table |-> ynms, text |-> <<>>, fn |-> NoFn,
                       again |-> instr.have /\ instr.start = start /\ instr.max = max]
            /\ UNCHANGED <<_subs, runs, probe>>

\* generate_ynm_method(instr, degree)
GenerateYnmMethod ==
    \E degree \in (0 - 1)..(MaxDegree + 1) :
        /\ instr.have
        /\ ret' = [op |-> "generate_ynm_method", arg |-> <<degree>>, table |-> instr.ynms,
                   text |-> generate_ynm_method(instr.ynms, degree), fn |-> NoFn,
                   again |-> FALSE]
        /\ UNCHANGED <<_subs, instr, runs, probe>>

\* The lists of at most MaxDegrees degrees, each the degree of a routine with
\* outputs.
DegreeLists == UNION {[1..k -> 1..MaxDegree] : k \in 0..MaxDegrees}

\* generate_ynm_file(instr, degrees)
GenerateYnmFile ==
    \E degrees \in DegreeLists :
        /\ instr.have
        /\ ret' = [op |-> "generate_ynm_file", arg |-> degrees, table |-> instr.ynms,
                   text |-> generate_ynm_file(instr.ynms, degrees), fn |-> NoFn,
                   again |-> FALSE]
        /\ UNCHANGED <<_subs, instr, runs, probe>>

\* compile_file(degree), for the degrees that give the routine a valid name
CompileFile ==
    \E degree \in Degrees :
        LET c == compile_file(degree)
        IN  /\ ret' = [op |-> "compile_file", arg |-> <<degree>>, table |-> c.table,
                       text |-> c.source, fn |-> c.fn, again |-> FALSE]
            /\ UNCHANGED <<_subs, instr, runs, probe>>

Next == GenerateYnmInstructions \/ GenerateYnmMethod \/ GenerateYnmFile \/ CompileFile

Spec == Init /\ [][Next]_vars

\* --------------------------------------------------- standalone generator

\* The -n/--degree flag takes the values 1..MaxFlag (4 when it is not given).
MaxFlag == 6

MainMaxDegree == 8

MainDegrees == <<2, 4, 8>>

\* Faulty variant of main_file: the flag is the table's max_degree.
main_file_flag(args) ==
    generate_ynm_file(generate_ynm_instructions(args.degree, 0), MainDegrees)

\* instr = generate_ynm_instructions(max_degree=8, start_degree=0)
\* file = generate_ynm_file(instr, [2, 4, 8])
main_file(args) ==
    generate_ynm_file(generate_ynm_instructions(MainMaxDegree, 0), MainDegrees)

BlackSep == ",\n"

\* black.format_file_contents(file, ...): the formatter changes the layout
\* only; of the layout, the model keeps that the elements of a list that
\* does not fit a line go on lines of their own.
format_file_contents(file) ==
    [i \in 1..Len(file) |-> IF file[i] = "," THEN BlackSep ELSE file[i]]

\* One run of the script: the text goes to args.output when given, and to
\* standard output otherwise.  runs keeps the last two runs.
Main ==
    \E degree \in 1..MaxFlag, output \in {"", "rsh.py"} :
        LET args == [degree |-> degree, output |-> output]
            fmt_file == format_file_contents(main_file(args))
            run == [args |-> args, to |-> IF output # "" THEN output ELSE "stdout",
                    written |-> fmt_file]
        IN  /\ runs' = (IF runs = <<>> THEN <<>> ELSE <<runs[Len(runs)]>>) \o <<run>>
            /\ UNCHANGED <<_subs, instr, ret, probe>>

SpecMain == Init /\ [][Main]_vars

\* ------------------------------------------- substitution and evaluation

\* The expressions _substitute is applied to: the harmonics of the degrees
\* 0..MaxDegree, and every monomial with exponents 0..MaxDegree.
Exprs ==
    {Ylm(n, m) : <<n, m>> \in {nm \in Degrees \X ((0 - MaxDegree)..MaxDegree) : Abs(nm[2]) <= nm[1]}}
        \cup {<<Mono(1, a, b, c)>> : <<a, b, c>> \in Degrees \X Degrees \X Degrees}

Coords == (0 - MaxCoord)..MaxCoord

\* An expression and a point are given; nothing has been applied yet.
InitSubs ==
    /\ _subs = SubsTable
    /\ instr = NoTable
    /\ ret = Imported
    /\ runs = <<>>
    /\ probe \in {[NoProbe EXCEPT !.f = f, !.xyz = xyz] :
                      f \in Exprs, xyz \in Coords \X Coords \X Coords}

\* g = _substitute(f)
Substitute ==
    /\ ~probe.hasf
    /\ probe' = [probe EXCEPT !.hasf = TRUE, !.g = _substitute(probe.f)]
    /\ UNCHANGED <<_subs, instr, ret, runs>>

\* A generated routine binds x, y, z and the six products for the point.
RunRoutine ==
    /\ ~probe.haspt
    /\ probe' = [probe EXCEPT !.haspt = TRUE, !.env = Bindings(probe.xyz)]
    /\ UNCHANGED <<_subs, instr, ret, runs>>

NextSubs == Substitute \/ RunRoutine

SpecSubs == InitSubs /\ [][NextSubs]_vars

\* ----------------------------------------------------------------- claims

IsGenerate == ret.op = "generate_ynm_instructions"

IsMethod == ret.op = "generate_ynm_method"

IsFile == ret.op = "generate_ynm_file"

IsCompile == ret.op = "compile_file"

\* The routine a generate_ynm_method call returned, read back from its text.
RetRoutine == Defs(ret.text, ",")[1]

\* An instruction in the batch-broadcast form.
Wrapped(ins) == Len(ins) >= 2 /\ ins[1] = WrapOpen /\ ins[Len(ins)] = WrapClose

\* C1: for 0 <= start <= end, generate_ynm_instructions(max_degree=end,
\* start_degree=start) returns end - start bands, and the band at index i
\* (from 0) holds 2n+1 instructions, n = start + i.
C1_BandCounts ==
    (IsGenerate /\ ret.arg[2] <= ret.arg[1]) =>
        /\ Len(ret.table) = ret.arg[1] - ret.arg[2]
        /\ \A i \in 1..Len(ret.table) :
               Len(ret.table[i]) = 2 * (ret.arg[2] + i - 1) + 1

C1_Witness == IsGenerate /\ ret.arg = <<3, 1>> /\ Len(ret.table) = 2 /\ Len(ret.table[2]) = 5

\* C2: in a routine emitted for degree d <= len(table) from a table derived
\* with start_degree 0, the stacked expression at position n*n + n + m
\* (from 0) is the instruction of the pair (n, m), for every 0 <= n < d and
\* -n <= m <= n; the position does not mention d.
C2_DegreeMajorOrder ==
    (IsMethod /\ instr.start = 0 /\ ret.arg[1] >= 0 /\ ret.arg[1] <= Len(ret.table)) =>
        \A n \in 0..(ret.arg[1] - 1) : \A m \in (0 - n)..n :
            /\ n * n + n + m + 1 <= Len(RetRoutine.out)
            /\ RetRoutine.out[n * n + n + m + 1] = YlmStr(n, m)

C2_Witness ==
    /\ IsMethod /\ instr.start = 0 /\ ret.arg[1] = 3 /\ Len(ret.table) = 3
    /\ RetRoutine.out[8] = YlmStr(2, 1)
    /\ YlmStr(2, 1) # YlmStr(2, -1)

\* C3: for a table derived from degree 0 and 1 <= d <= len(table), the
\* routine emitted for d stacks exactly d*d expressions: the instructions
\* of the bands 0..d-1 in order, none of band d or higher.
C3_StackedCount ==
    (IsMethod /\ instr.start = 0 /\ ret.arg[1] >= 1 /\ ret.arg[1] <= Len(ret.table)) =>
        /\ Len(RetRoutine.out) = ret.arg[1] * ret.arg[1]
        /\ RetRoutine.out = Flatten(SubSeq(ret.table, 1, ret.arg[1]))

C3_Witness ==
    /\ IsMethod /\ instr.start = 0 /\ ret.arg[1] = 2 /\ Len(ret.table) = 3
    /\ Len(RetRoutine.out) = 4

\* C4: generate_ynm_file(table, degrees) gives the header block, then the
\* import block, each once, then len(degrees) routine definitions in the
\* order given, the i-th named rsh_cart_<degrees[i]>; distinct degrees give
\* distinct names, and a degree asked for twice gives two definitions of
\* one name.
C4_DocumentLayout ==
    IsFile =>
        LET doc == ret.text
            defs == Defs(doc, ",")
            at == DefsAt(doc)
            count(tok) == Cardinality({i \in 1..Len(doc) : doc[i] = tok})
        IN  /\ doc[1] = header_tpl[1] /\ count(header_tpl[1]) = 1
            /\ doc[3] = import_tpl[1] /\ count(import_tpl[1]) = 1
            /\ \A k \in 1..Len(at) : at[k] > 3
            /\ Len(defs) = Len(ret.arg)
            /\ \A i \in 1..Len(defs) :
                   /\ defs[i].name = "rsh_cart_" \o ToString(ret.arg[i])
                   /\ defs[i].out = Flatten(SliceTo(ret.table, ret.arg[i]))
            /\ \A i, j \in 1..Len(defs) :
                   (defs[i].name = defs[j].name) <=> (ret.arg[i] = ret.arg[j])

C4_Witness ==
    /\ IsFile /\ ret.arg = <<2, 2>> /\ Len(ret.table) = 3
    /\ Len(Defs(ret.text, ",")) = 2
    /\ Defs(ret.text, ",")[1].name = Defs(ret.text, ",")[2].name

\* C5: for d >= 1, compile_file(d) derives the bands 0..d, emits a document
\* with a single routine and returns the routine named rsh_cart_d that the
\* document defines; the routine stacks d*d outputs, so a batch of shape
\* (5,3) gives shape (5, d*d), although d+1 bands were derived.
C5_CompileRoundTrip ==
    (IsCompile /\ ret.arg[1] >= 1) =>
        LET d == ret.arg[1]
            defs == Defs(ret.text, ",")
        IN  /\ Len(ret.table) = d + 1
            /\ \A i \in 1..Len(ret.table) : Len(ret.table[i]) = 2 * (i - 1) + 1
            /\ Len(defs) = 1
            /\ ret.fn = defs[1]
            /\ ret.fn.name = "rsh_cart_" \o ToString(d)
            /\ Len(ret.fn.out) = d * d
            /\ RshShape(ret.fn, <<5, 3>>) = <<5, d * d>>

C5_Witness ==
    /\ IsCompile /\ ret.arg[1] = 2 /\ Len(ret.table) = 3
    /\ RshShape(ret.fn, <<5, 3>>) = <<5, 4>>

\* C6: in a table generate_ynm_instructions returns, an instruction has the
\* batch-broadcast form exactly when its degree is 0; so in a routine
\* emitted for a degree >= 1 from a table that starts with band 0, the
\* first stacked output, and no other, is the broadcast constant, and it
\* mentions no coordinate.
C6_BroadcastOnlyDegreeZero ==
    /\ IsGenerate =>
           \A i \in 1..Len(ret.table) : \A j \in 1..Len(ret.table[i]) :
               Wrapped(ret.table[i][j]) <=> (ret.arg[2] + i - 1 = 0)
    /\ (IsMethod /\ instr.start = 0 /\ instr.max >= 1 /\ ret.arg[1] >= 1) =>
           /\ Len(RetRoutine.out) >= 1
           /\ \A k \in 1..Len(RetRoutine.out) : Wrapped(RetRoutine.out[k]) <=> (k = 1)
           /\ \A t \in 1..Len(RetRoutine.out[1]) :
                  \A s \in 1..Len(Symbols) : RetRoutine.out[1][t] # Symbols[s]

C6_Witness ==
    /\ IsMethod /\ instr.start = 0 /\ instr.max = 3 /\ ret.arg[1] = 3
    /\ Wrapped(RetRoutine.out[1])
    /\ ~Wrapped(RetRoutine.out[3])

\* C7: an expression evaluated after _substitute, with x2, y2, z2, xy, xz,
\* yz bound as the routine binds them, has the value it has before the
\* substitution, at every point.
C7_SubstitutionSound ==
    (probe.hasf /\ probe.haspt) => Eval(probe.g, probe.env) = Eval(probe.f, probe.env)

C7_Witness ==
    /\ probe.hasf /\ probe.haspt
    /\ probe.f = Ylm(3, -3) /\ probe.g # probe.f
    /\ probe.xyz = <<2, 0 - 1, 1>>
    /\ Eval(probe.f, probe.env) # 0

C10_Original ==
    (IsMethod /\ ret.arg[1] >= 0) =>
        LET d == ret.arg[1]
        IN  /\ RetRoutine.out = Flatten(SubSeq(ret.table, 1, Min(d, Len(ret.table))))
            /\ RetRoutine.name = "rsh_cart_" \o ToString(d)
            /\ (instr.start > 0 \/ d > Len(ret.table)) => Len(RetRoutine.out) # d * d

\* C10 amended: for d >= 0 the stacked list is the concatenation of the
\* first min(d, len(table)) bands and the routine is named rsh_cart_d; the
\* number of outputs is not d*d when the table was derived with
\* start_degree > 0 and 1 <= d <= len(table), or with start_degree 0 and
\* d > len(table).
C10_PositionalBands ==
    (IsMethod /\ ret.arg[1] >= 0) =>
        LET d == ret.arg[1]
        IN  /\ RetRoutine.out = Flatten(SubSeq(ret.table, 1, Min(d, Len(ret.table))))
            /\ RetRoutine.name = "rsh_cart_" \o ToString(d)
            /\ ((instr.start > 0 /\ 1 <= d /\ d <= Len(ret.table))
                    \/ (instr.start = 0 /\ d > Len(ret.table)))
                   => Len(RetRoutine.out) # d * d

C10_Witness ==
    /\ IsMethod /\ instr.start = 1 /\ instr.max = 3 /\ ret.arg[1] = 2
    /\ Len(RetRoutine.out) = 8

====
